---- MODULE Spec2Model ----
(***************************************************************************)
(* Calibration entries of qiskit.pulse (calibration_entries.py):           *)
(* ScheduleDef, CallableDef and PulseQobjDef, the schedule values they     *)
(* hold, and the calls a single-threaded caller makes on them.             *)
(*                                                                         *)
(* A parameter name is a string, written as the sequence of its character  *)
(* codes ("a" = <<1>>, "ab" = <<1, 2>>, "b" = <<2>>), so that sorted() is   *)
(* the lexicographic order of Python strings.  A schedule value is a cell  *)
(* of the heap: its index is its identity, two cells may be equal values.  *)
(***************************************************************************)
EXTENDS Integers, Sequences, FiniteSets, TLC

VARIABLES
    heap,       \* the schedule values alive: index -> cell
    entries,    \* the calibration entries constructed: index -> entry object
    builds,     \* per entry, the completed runs of _build_schedule's conversion
    invoked,    \* the invocations of callables made by CallableDef.get_schedule
    last,       \* the last call made and what it returned or raised
    threads     \* per thread sharing the entries, where its call stands

vars == <<heap, entries, builds, invoked, last, threads>>

-----------------------------------------------------------------------------
(* Bounds of the model *)

MaxPos == 2         \* positional arguments of one get_schedule call
MaxKw == 1          \* keyword arguments of one get_schedule call
MaxInvoke == 3      \* callable invocations followed
MaxThreads == 3     \* threads sharing the entries

-----------------------------------------------------------------------------
(* CalibrationPublisher and Python's None *)

BACKEND_PROVIDER == 0
QISKIT == 1
EXPERIMENT_SERVICE == 2
NoPublisher == -1       \* "publisher" not in metadata
None == 0               \* the null reference (heap indices start at 1)

NameA == <<1>>
NameAB == <<1, 2>>
NameB == <<2>>
Names == {NameA, NameAB, NameB}
Vals == {1, 2}

NoSignature == [some |-> FALSE, params |-> <<>>]
NoSource == [some |-> FALSE, insts |-> <<>>]
EmptyAssign == [n \in {} |-> 0]

-----------------------------------------------------------------------------
(* Python strings and sorted() *)

RECURSIVE StrLess(_, _)
StrLess(s, t) ==
    IF t = <<>> THEN FALSE
    ELSE IF s = <<>> THEN TRUE
    ELSE IF Head(s) # Head(t) THEN Head(s) < Head(t)
    ELSE StrLess(Tail(s), Tail(t))

\* An order by length first: "b" before "ab".
RECURSIVE sortedByLength(_)
sortedByLength(S) ==
    IF S = {} THEN <<>>
    ELSE LET m == CHOOSE x \in S : \A y \in S \ {x} :
                     Len(x) < Len(y) \/ (Len(x) = Len(y) /\ StrLess(x, y))
         IN  <<m>> \o sortedByLength(S \ {m})

RECURSIVE sorted(_)
sorted(S) ==
    IF S = {} THEN <<>>
    ELSE LET m == CHOOSE x \in S : \A y \in S \ {x} : StrLess(x, y)
         IN  <<m>> \o sorted(S \ {m})

SeqToSet(s) == {s[k] : k \in DOMAIN s}

Merge(f, g) ==
    [n \in (DOMAIN f) \cup (DOMAIN g) |-> IF n \in DOMAIN g THEN g[n] ELSE f[n]]

-----------------------------------------------------------------------------
(* Schedule values (the collaborator of the entries) *)

\* Native instructions, as the converter returns them.
InstDelay == [op |-> "delay", params |-> {}]
InstPlayB == [op |-> "play", params |-> {NameB}]
InstPlayAB == [op |-> "play", params |-> {NameAB}]
InstShiftB == [op |-> "shift", params |-> {NameB}]

InstParams(insts) == UNION {insts[k].inst.params : k \in DOMAIN insts}

FreeCell ==
    [alloc |-> FALSE, name |-> "", insts |-> <<>>, params |-> {},
     assigned |-> EmptyAssign, publisher |-> NoPublisher]

\* Schedule(name=...): an empty schedule, its metadata empty.
NewSchedule(name) ==
    [alloc |-> TRUE, name |-> name, insts |-> <<>>, params |-> {},
     assigned |-> EmptyAssign, publisher |-> NoPublisher]

\* schedule.insert(t0, inst, inplace=True): the instruction is listed at its
\* offset, after the instructions already listed at that offset or before.
ScheduleInsert(cell, t0, inst) ==
    LET n == Len(cell.insts)
        k == Cardinality({j \in 1..n : cell.insts[j].t0 <= t0})
        new == [j \in 1..(n + 1) |->
                  IF j <= k THEN cell.insts[j]
                  ELSE IF j = k + 1 THEN [t0 |-> t0, inst |-> inst]
                  ELSE cell.insts[j - 1]]
    IN  [cell EXCEPT !.insts = new, !.params = @ \cup inst.params]

\* Schedule.__eq__: the instructions and their parameters; neither the name
\* nor the metadata.  A schedule never equals None; None equals None.
ScheduleEq(h, r, s) ==
    IF r = None \/ s = None THEN r = s
    ELSE /\ h[r].insts = h[s].insts
         /\ h[r].params = h[s].params
         /\ h[r].assigned = h[s].assigned

\* The schedule values the caller holds before any call.
Pool ==
    <<  [alloc |-> TRUE, name |-> "s1",
         insts |-> <<[t0 |-> 5, inst |-> InstDelay],
                     [t0 |-> 5, inst |-> InstPlayAB],
                     [t0 |-> 5, inst |-> InstShiftB]>>,
         params |-> {NameAB, NameB}, assigned |-> EmptyAssign,
         publisher |-> NoPublisher],
        [alloc |-> TRUE, name |-> "s2",
         insts |-> <<[t0 |-> 5, inst |-> InstPlayB],
                     [t0 |-> 10, inst |-> InstDelay]>>,
         params |-> {NameB}, assigned |-> EmptyAssign,
         publisher |-> EXPERIMENT_SERVICE],
        [alloc |-> TRUE, name |-> "s3",
         insts |-> <<[t0 |-> 0, inst |-> InstDelay]>>,
         params |-> {}, assigned |-> EmptyAssign,
         publisher |-> NoPublisher]  >>

NPool == Len(Pool)
\* Room for the caller's schedules, one schedule built per entry and the value
\* returned last.
HeapIds == 1..(NPool + 3 + MaxThreads)
PoolIds == 1..NPool

-----------------------------------------------------------------------------
(* The heap: allocation, and the values no one refers to any more *)

InitHeap == [r \in HeapIds |-> IF r \in PoolIds THEN Pool[r] ELSE FreeCell]

\* The schedule values the entries hold.
Referenced(ents) ==
    {ents[i]._definition : i \in {j \in DOMAIN ents : ents[j].cls # "CallableDef"}}
        \ {None}

\* A value that neither the caller's pool, nor an entry, nor `keep` refers to
\* is gone: the caller dropped the result of its previous call.
Collect(h, ents, keep) ==
    [r \in HeapIds |->
        IF r \in PoolIds \cup Referenced(ents) \cup keep THEN h[r] ELSE FreeCell]

Alloc(h) == CHOOSE r \in HeapIds : ~h[r].alloc /\ \A q \in HeapIds : q < r => h[q].alloc

\* definition.assign_parameters(value_dict, inplace): the parameters of
\* value_dict are substituted; with inplace=False in a deep copy of the value.
AssignParameters(h, v, value_dict, inplace) ==
    LET new == [h[v] EXCEPT !.params = @ \ DOMAIN value_dict,
                            !.assigned = Merge(@, value_dict)]
        r == IF inplace THEN v ELSE Alloc(h)
    IN  [h |-> [h EXCEPT ![r] = new], ref |-> r]

-----------------------------------------------------------------------------
(* inspect.Signature *)

Param(name) == [name |-> name, has_default |-> FALSE, default |-> 0]
ParamDefault(name, d) == [name |-> name, has_default |-> TRUE, default |-> d]

SigNames(sig) == [k \in DOMAIN sig.params |-> sig.params[k].name]

\* Signature.bind(*args, **kwargs) and Signature.bind_partial: `ok` is FALSE
\* where Python raises TypeError.
SignatureBind(sig, pos, kw, partial) ==
    LET ps == sig.params
        n == Len(ps)
        byPos == {ps[k].name : k \in 1..(IF Len(pos) <= n THEN Len(pos) ELSE n)}
        all == {ps[k].name : k \in 1..n}
        missing == {k \in 1..n : /\ k > Len(pos)
                                 /\ ps[k].name \notin DOMAIN kw
                                 /\ ~ps[k].has_default}
        ok == /\ Len(pos) <= n
              /\ byPos \cap DOMAIN kw = {}
              /\ DOMAIN kw \subseteq all
              /\ partial \/ missing = {}
        args == [nm \in byPos \cup DOMAIN kw |->
                    IF nm \in DOMAIN kw THEN kw[nm]
                    ELSE pos[CHOOSE k \in 1..n : ps[k].name = nm]]
    IN  [ok |-> ok, arguments |-> IF ok THEN args ELSE EmptyAssign]

\* BoundArguments.apply_defaults()
ApplyDefaults(sig, arguments) ==
    LET withDefault == {sig.params[k].name : k \in {j \in DOMAIN sig.params :
                                                     sig.params[j].has_default}}
    IN  [nm \in DOMAIN arguments \cup withDefault |->
            IF nm \in DOMAIN arguments THEN arguments[nm]
            ELSE sig.params[CHOOSE k \in DOMAIN sig.params :
                                sig.params[k].name = nm].default]

-----------------------------------------------------------------------------
(* Entry objects and the record of a call *)

UserArgChoices == {<<>>, <<NameB, NameAB>>, <<NameB>>}

\* ScheduleDef(arguments): an empty list of names is kept but counts as none.
ScheduleDef_init(arguments) ==
    [cls |-> "ScheduleDef", _user_arguments |-> arguments, _definition |-> None,
     _signature |-> NoSignature, _source |-> NoSource, _name |-> ""]

CallableDef_init ==
    [cls |-> "CallableDef", _user_arguments |-> <<>>, _definition |-> None,
     _signature |-> NoSignature, _source |-> NoSource, _name |-> ""]

PulseQobjDef_init(arguments, name) ==
    [ScheduleDef_init(arguments) EXCEPT !.cls = "PulseQobjDef", !._name = name]

NoStr == [head |-> "", name |-> "", params |-> <<>>, parens |-> FALSE]
NoRet == [kind |-> "none", ref |-> None, sig |-> NoSignature, eq |-> FALSE,
          str |-> NoStr]
RetRef(r) == [NoRet EXCEPT !.kind = "ref", !.ref = r]
RetSig(s) == [NoRet EXCEPT !.kind = "sig", !.sig = s]
RetBool(b) == [NoRet EXCEPT !.kind = "bool", !.eq = b]
RetStr(s) == [NoRet EXCEPT !.kind = "str", !.str = s]

\* A call: on entry `self`, with its arguments; err is "none" or the
\* exception raised: "ArgumentMismatch" and "BindingError" are the two
\* PulseErrors, "TypeError" and "AttributeError" are Python's own.  `unbuilt`
\* says that the call began on a PulseQobjDef holding no schedule yet.
Call(op, self, other, ref, src, pos, kw, err, ret) ==
    [op |-> op, self |-> self, other |-> other, ref |-> ref, src |-> src,
     pos |-> pos, kw |-> kw, err |-> err,
     ret |-> IF err = "none" THEN ret ELSE NoRet,
     unbuilt |-> /\ self \in DOMAIN entries
                 /\ entries[self].cls = "PulseQobjDef"
                 /\ entries[self]._definition = None]

NoCall ==
    [op |-> "init", self |-> 0, other |-> 0, ref |-> None, src |-> NoSource,
     pos |-> <<>>, kw |-> EmptyAssign, err |-> "none", ret |-> NoRet,
     unbuilt |-> FALSE]

\* The positional and keyword arguments of a get_schedule call: the k-th
\* positional argument is the number k; a keyword argument names "a" or "b"
\* and is any of Vals.
PosArgs == {[k \in 1..n |-> k] : n \in 0..MaxPos}
KwNames == {NameA, NameB}
KwArgs == UNION {[D -> Vals] : D \in {E \in SUBSET KwNames : Cardinality(E) <= MaxKw}}

-----------------------------------------------------------------------------
(* ScheduleDef *)

\* ScheduleDef._parse_argument
_parse_argument(cell, user_arguments) ==
    LET all_argnames == cell.params
        mismatch == user_arguments # <<>> /\ SeqToSet(user_arguments) # all_argnames
        argnames == IF user_arguments # <<>> THEN user_arguments
                    ELSE sorted(all_argnames)
    IN  [err |-> IF mismatch THEN "ArgumentMismatch" ELSE "none",
         signature |-> [some |-> TRUE,
                        params |-> [k \in DOMAIN argnames |-> Param(argnames[k])]]]

\* A tag written whatever the value carries.
TagAlways(cell) == [cell EXCEPT !.publisher = QISKIT]

\* The publisher tag ScheduleDef.define and CallableDef.get_schedule leave on
\* a value: QISKIT, unless the value is tagged.
TagQiskit(cell) ==
    IF cell.publisher = NoPublisher THEN [cell EXCEPT !.publisher = QISKIT] ELSE cell

\* ScheduleDef.define on entry object ent: the entry and the heap after it.
ScheduleDef_define_eff(h, ent, v) ==
    LET h1 == [h EXCEPT ![v] = TagQiskit(@)]
        p == _parse_argument(h1[v], ent._user_arguments)
    IN  [h |-> h1,
         ent |-> [ent EXCEPT !._definition = v,
                             !._signature = IF p.err = "none" THEN p.signature ELSE @],
         err |-> p.err]

\* The references a caller can pass to define: the schedule values of its pool.
Held == PoolIds

ScheduleDef_define(i, v) ==
    /\ entries[i].cls = "ScheduleDef"
    /\ LET h0 == Collect(heap, entries, {v})
           r == ScheduleDef_define_eff(h0, entries[i], v)
       IN  /\ heap' = r.h
           /\ entries' = [entries EXCEPT ![i] = r.ent]
           /\ last' = Call("define", i, 0, v, NoSource, <<>>, EmptyAssign, r.err, NoRet)
    /\ UNCHANGED <<builds, invoked, threads>>

\* ScheduleDef.get_signature
ScheduleDef_get_signature_eff(ent) == ent._signature

ScheduleDef_get_signature(i) ==
    /\ entries[i].cls = "ScheduleDef"
    /\ heap' = Collect(heap, entries, {})
    /\ last' = Call("get_signature", i, 0, None, NoSource, <<>>, EmptyAssign, "none",
                    RetSig(ScheduleDef_get_signature_eff(entries[i])))
    /\ UNCHANGED <<entries, builds, invoked, threads>>

\* A get_schedule that copies the stored value also when nothing is bound.
ScheduleDef_get_schedule_copy(h, ent, sig, pos, kw) ==
    IF ent._definition = None THEN [h |-> h, err |-> "none", ref |-> None]
    ELSE LET a == AssignParameters(h, ent._definition, EmptyAssign, FALSE)
         IN  [h |-> a.h, err |-> "none", ref |-> a.ref]

\* A get_schedule that assigns the parameters in place.
ScheduleDef_get_schedule_inplace(h, ent, sig, pos, kw) ==
    IF pos = <<>> /\ DOMAIN kw = {}
    THEN [h |-> h, err |-> "none", ref |-> ent._definition]
    ELSE IF ~sig.some THEN [h |-> h, err |-> "AttributeError", ref |-> None]
    ELSE LET to_bind == SignatureBind(sig, pos, kw, TRUE)
         IN  IF ~to_bind.ok THEN [h |-> h, err |-> "BindingError", ref |-> None]
             ELSE LET bound == h[ent._definition].params \cap DOMAIN to_bind.arguments
                      value_dict == [nm \in bound |-> to_bind.arguments[nm]]
                      a == AssignParameters(h, ent._definition, value_dict, TRUE)
                  IN  [h |-> a.h, err |-> "none", ref |-> a.ref]

\* ScheduleDef.get_schedule on an entry whose get_signature() gives sig.
ScheduleDef_get_schedule_eff(h, ent, sig, pos, kw) ==
    IF pos = <<>> /\ DOMAIN kw = {}
    THEN [h |-> h, err |-> "none", ref |-> ent._definition]
    ELSE IF ~sig.some THEN [h |-> h, err |-> "AttributeError", ref |-> None]
    ELSE LET to_bind == SignatureBind(sig, pos, kw, TRUE)
         IN  IF ~to_bind.ok THEN [h |-> h, err |-> "BindingError", ref |-> None]
             ELSE LET bound == h[ent._definition].params \cap DOMAIN to_bind.arguments
                      value_dict == [nm \in bound |-> to_bind.arguments[nm]]
                      a == AssignParameters(h, ent._definition, value_dict, FALSE)
                  IN  [h |-> a.h, err |-> "none", ref |-> a.ref]

ScheduleDef_get_schedule(i, pos, kw) ==
    /\ entries[i].cls = "ScheduleDef"
    /\ LET h0 == Collect(heap, entries, {})
           r == ScheduleDef_get_schedule_eff(h0, entries[i], entries[i]._signature, pos, kw)
       IN  /\ heap' = r.h
           /\ last' = Call("get_schedule", i, 0, None, NoSource, pos, kw, r.err,
                           RetRef(r.ref))
    /\ UNCHANGED <<entries, builds, invoked, threads>>

\* ScheduleDef.__eq__(self, other), other a ScheduleDef or a PulseQobjDef.
ScheduleDef_eq_eff(h, ent, other) == ScheduleEq(h, ent._definition, other._definition)

\* `entries[i] == entries[j]` runs ScheduleDef.__eq__ when both are plain
\* ScheduleDef objects (a right operand of a subclass is asked first).
ScheduleDef_eq(i, j) ==
    /\ i # j
    /\ entries[i].cls = "ScheduleDef" /\ entries[j].cls = "ScheduleDef"
    /\ heap' = Collect(heap, entries, {})
    /\ last' = Call("eq", i, j, None, NoSource, <<>>, EmptyAssign, "none",
                    RetBool(ScheduleDef_eq_eff(heap, entries[i], entries[j])))
    /\ UNCHANGED <<entries, builds, invoked, threads>>

\* ScheduleDef.__str__ on an entry whose get_signature() gives sig.
ScheduleDef_str_eff(h, ent, sig) ==
    IF ent._definition = None \/ ~sig.some
    THEN [err |-> "AttributeError", str |-> NoStr]
    ELSE [err |-> "none",
          str |-> [head |-> "Schedule", name |-> h[ent._definition].name,
                   params |-> SigNames(sig), parens |-> SigNames(sig) # <<>>]]

ScheduleDef_str(i) ==
    /\ entries[i].cls = "ScheduleDef"
    /\ heap' = Collect(heap, entries, {})
    /\ LET r == ScheduleDef_str_eff(heap, entries[i], entries[i]._signature)
       IN  last' = Call("str", i, 0, None, NoSource, <<>>, EmptyAssign, r.err,
                        RetStr(r.str))
    /\ UNCHANGED <<entries, builds, invoked, threads>>

-----------------------------------------------------------------------------
(* CallableDef *)

\* The callables a caller defines: f1(a, b=1) makes a new untagged schedule
\* from its arguments, f2() returns the caller's schedule s2, which is tagged.
Callables ==
    <<[name |-> "f1", params |-> <<Param(NameA), ParamDefault(NameB, 1)>>,
       returns |-> None],
      [name |-> "f2", params |-> <<>>, returns |-> 2]>>

CallableIds == DOMAIN Callables

\* self._definition(**to_bind.arguments)
Invoke(h, f, arguments) ==
    IF Callables[f].returns # None
    THEN [h |-> h, ref |-> Callables[f].returns]
    ELSE LET r == Alloc(h)
             new == [NewSchedule(Callables[f].name) EXCEPT
                        !.insts = <<[t0 |-> 0, inst |-> InstPlayB]>>,
                        !.assigned = arguments]
         IN  [h |-> [h EXCEPT ![r] = new], ref |-> r]

\* inspect.signature(definition)
CallableDef_define_eff(ent, f) ==
    [ent EXCEPT !._definition = f,
                !._signature = [some |-> TRUE, params |-> Callables[f].params]]

CallableDef_define(i, f) ==
    /\ entries[i].cls = "CallableDef"
    /\ heap' = Collect(heap, entries, {})
    /\ entries' = [entries EXCEPT ![i] = CallableDef_define_eff(@, f)]
    /\ last' = Call("define", i, 0, f, NoSource, <<>>, EmptyAssign, "none", NoRet)
    /\ UNCHANGED <<builds, invoked, threads>>

CallableDef_get_signature(i) ==
    /\ entries[i].cls = "CallableDef"
    /\ heap' = Collect(heap, entries, {})
    /\ last' = Call("get_signature", i, 0, None, NoSource, <<>>, EmptyAssign, "none",
                    RetSig(entries[i]._signature))
    /\ UNCHANGED <<entries, builds, invoked, threads>>

\* A get_schedule that binds partially, as ScheduleDef.get_schedule does.
CallableDef_get_schedule_partial(h, ent, pos, kw) ==
    IF ~ent._signature.some
    THEN [h |-> h, err |-> "AttributeError", ref |-> None, calls |-> 0]
    ELSE LET to_bind == SignatureBind(ent._signature, pos, kw, TRUE)
         IN  IF ~to_bind.ok
             THEN [h |-> h, err |-> "BindingError", ref |-> None, calls |-> 0]
             ELSE LET arguments == ApplyDefaults(ent._signature, to_bind.arguments)
                      c == Invoke(h, ent._definition, arguments)
                  IN  [h |-> [c.h EXCEPT ![c.ref] = TagQiskit(@)], err |-> "none",
                       ref |-> c.ref, calls |-> 1]

\* CallableDef.get_schedule: `calls` is 1 when the callable was invoked.
CallableDef_get_schedule_eff(h, ent, pos, kw) ==
    IF ~ent._signature.some
    THEN [h |-> h, err |-> "AttributeError", ref |-> None, calls |-> 0]
    ELSE LET to_bind == SignatureBind(ent._signature, pos, kw, FALSE)
         IN  IF ~to_bind.ok
             THEN [h |-> h, err |-> "BindingError", ref |-> None, calls |-> 0]
             ELSE LET arguments == ApplyDefaults(ent._signature, to_bind.arguments)
                      c == Invoke(h, ent._definition, arguments)
                  IN  [h |-> [c.h EXCEPT ![c.ref] = TagQiskit(@)], err |-> "none",
                       ref |-> c.ref, calls |-> 1]

CallableDef_get_schedule(i, pos, kw) ==
    /\ entries[i].cls = "CallableDef"
    /\ invoked < MaxInvoke
    /\ LET h0 == Collect(heap, entries, {})
           r == CallableDef_get_schedule_eff(h0, entries[i], pos, kw)
       IN  /\ heap' = r.h
           /\ invoked' = invoked + r.calls
           /\ last' = Call("get_schedule", i, 0, None, NoSource, pos, kw, r.err,
                           RetRef(r.ref))
    /\ UNCHANGED <<entries, builds, threads>>

\* CallableDef.__eq__: the two entries hold the same object.
CallableDef_eq_eff(ent, other) == ent._definition = other._definition

CallableDef_eq(i, j) ==
    /\ i # j
    /\ entries[i].cls = "CallableDef" /\ entries[j].cls = "CallableDef"
    /\ heap' = Collect(heap, entries, {})
    /\ last' = Call("eq", i, j, None, NoSource, <<>>, EmptyAssign, "none",
                    RetBool(CallableDef_eq_eff(entries[i], entries[j])))
    /\ UNCHANGED <<entries, builds, invoked, threads>>

CallableDef_str_eff(ent) ==
    IF ~ent._signature.some THEN [err |-> "AttributeError", str |-> NoStr]
    ELSE [err |-> "none",
          str |-> [head |-> "Callable", name |-> Callables[ent._definition].name,
                   params |-> SigNames(ent._signature), parens |-> TRUE]]

CallableDef_str(i) ==
    /\ entries[i].cls = "CallableDef"
    /\ heap' = Collect(heap, entries, {})
    /\ LET r == CallableDef_str_eff(entries[i])
       IN  last' = Call("str", i, 0, None, NoSource, <<>>, EmptyAssign, r.err,
                        RetStr(r.str))
    /\ UNCHANGED <<entries, builds, invoked, threads>>

-----------------------------------------------------------------------------
(* PulseQobjDef *)

\* converter._get_sequences(qobj_inst): the native instructions of one
\* serialized instruction, none for "noop".
_get_sequences(qobj_inst) ==
    CASE qobj_inst.name = "delay" -> <<InstDelay>>
      [] qobj_inst.name = "play_b" -> <<InstPlayB>>
      [] qobj_inst.name = "pair" -> <<InstPlayAB, InstShiftB>>
      [] OTHER -> <<>>

\* The serialized sequences a caller defines.
SrcA == <<[t0 |-> 10, name |-> "delay"], [t0 |-> 7, name |-> "noop"],
          [t0 |-> 5, name |-> "play_b"]>>
SrcB == <<[t0 |-> 5, name |-> "delay"], [t0 |-> 5, name |-> "pair"]>>
Sources == {SrcA, SrcB}

RECURSIVE InsertAll(_, _, _)
InsertAll(cell, t0, qiskit_insts) ==
    IF qiskit_insts = <<>> THEN cell
    ELSE InsertAll(ScheduleInsert(cell, t0, Head(qiskit_insts)), t0, Tail(qiskit_insts))

\* The loops with the serialized instructions visited last to first.
RECURSIVE ConvertReversed(_, _)
ConvertReversed(cell, source) ==
    IF source = <<>> THEN cell
    ELSE InsertAll(ConvertReversed(cell, Tail(source)), Head(source).t0,
                   _get_sequences(Head(source)))

\* The two loops of _build_schedule.
RECURSIVE Convert(_, _)
Convert(cell, source) ==
    IF source = <<>> THEN cell
    ELSE Convert(InsertAll(cell, Head(source).t0, _get_sequences(Head(source))),
                 Tail(source))

\* PulseQobjDef._build_schedule: `built` is 1 when the conversion ran to its
\* end (iterating over a source of None raises TypeError before it starts).
_build_schedule(h, ent) ==
    IF ~ent._source.some THEN [h |-> h, ent |-> ent, err |-> "TypeError", built |-> 0]
    ELSE LET schedule == [Convert(NewSchedule(ent._name), ent._source.insts)
                            EXCEPT !.publisher = BACKEND_PROVIDER]
             r == Alloc(h)
             p == _parse_argument(schedule, ent._user_arguments)
         IN  [h |-> [h EXCEPT ![r] = schedule],
              ent |-> [ent EXCEPT !._definition = r,
                                  !._signature = IF p.err = "none" THEN p.signature
                                                 ELSE @],
              err |-> p.err, built |-> 1]

\* A build on every request, whatever the entry holds.
BuildAlways(h, ent) == _build_schedule(h, ent)

\* `if self._definition is None: self._build_schedule()`
BuildIfNone(h, ent) ==
    IF ent._definition = None THEN _build_schedule(h, ent)
    ELSE [h |-> h, ent |-> ent, err |-> "none", built |-> 0]

\* A define that derives the signature at once, as ScheduleDef.define does.
PulseQobjDef_define_eager(ent, definition) ==
    [ent EXCEPT !._source = [some |-> TRUE, insts |-> definition],
                !._signature = _parse_argument(Convert(NewSchedule(ent._name), definition),
                                               ent._user_arguments).signature]

\* PulseQobjDef.define
PulseQobjDef_define_eff(ent, definition) ==
    [ent EXCEPT !._source = [some |-> TRUE, insts |-> definition]]

PulseQobjDef_define(i, definition) ==
    /\ entries[i].cls = "PulseQobjDef"
    /\ heap' = Collect(heap, entries, {})
    /\ entries' = [entries EXCEPT ![i] = PulseQobjDef_define_eff(@, definition)]
    /\ last' = Call("define", i, 0, None, [some |-> TRUE, insts |-> definition],
                    <<>>, EmptyAssign, "none", NoRet)
    /\ UNCHANGED <<builds, invoked, threads>>

PulseQobjDef_get_signature(i) ==
    /\ entries[i].cls = "PulseQobjDef"
    /\ LET b == BuildIfNone(Collect(heap, entries, {}), entries[i])
       IN  /\ heap' = b.h
           /\ entries' = [entries EXCEPT ![i] = b.ent]
           /\ builds' = [builds EXCEPT ![i] = @ + b.built]
           /\ last' = Call("get_signature", i, 0, None, NoSource, <<>>, EmptyAssign,
                           b.err, RetSig(ScheduleDef_get_signature_eff(b.ent)))
    /\ UNCHANGED <<invoked, threads>>

PulseQobjDef_get_schedule(i, pos, kw) ==
    /\ entries[i].cls = "PulseQobjDef"
    /\ LET b == BuildIfNone(Collect(heap, entries, {}), entries[i])
           r == ScheduleDef_get_schedule_eff(b.h, b.ent, b.ent._signature, pos, kw)
       IN  /\ heap' = IF b.err = "none" THEN r.h ELSE b.h
           /\ entries' = [entries EXCEPT ![i] = b.ent]
           /\ builds' = [builds EXCEPT ![i] = @ + b.built]
           /\ last' = Call("get_schedule", i, 0, None, NoSource, pos, kw,
                           IF b.err = "none" THEN r.err ELSE b.err, RetRef(r.ref))
    /\ UNCHANGED <<invoked, threads>>

\* An equality that always compares the schedule values, building this entry.
PulseQobjDef_eq_built(h, ent, other) ==
    LET b == BuildIfNone(h, ent)
    IN  [h |-> b.h, ent |-> b.ent, err |-> b.err, built |-> b.built,
         eq |-> ScheduleEq(b.h, b.ent._definition, other._definition)]

\* PulseQobjDef.__eq__(self, other), other a ScheduleDef or a PulseQobjDef.
PulseQobjDef_eq_eff(h, ent, other) ==
    IF other.cls = "PulseQobjDef"
    THEN [h |-> h, ent |-> ent, err |-> "none", built |-> 0,
          eq |-> ent._source = other._source]
    ELSE LET b == BuildIfNone(h, ent)
         IN  [h |-> b.h, ent |-> b.ent, err |-> b.err, built |-> b.built,
              eq |-> ScheduleEq(b.h, b.ent._definition, other._definition)]

\* PulseQobjDef.__eq__ runs for `entries[i] == entries[j]`, and also for
\* `entries[j] == entries[i]` with entries[j] a plain ScheduleDef: the right
\* operand, of a subclass of the left one's class, is asked first (reflected).
PulseQobjDef_eq(i, j, reflected) ==
    /\ i # j
    /\ entries[i].cls = "PulseQobjDef"
    /\ entries[j].cls \in {"ScheduleDef", "PulseQobjDef"}
    /\ reflected => entries[j].cls = "ScheduleDef"
    /\ LET r == PulseQobjDef_eq_eff(Collect(heap, entries, {}), entries[i], entries[j])
       IN  /\ heap' = r.h
           /\ entries' = [entries EXCEPT ![i] = r.ent]
           /\ builds' = [builds EXCEPT ![i] = @ + r.built]
           /\ last' = Call(IF reflected THEN "eq_reflected" ELSE "eq", i, j, None,
                           NoSource, <<>>, EmptyAssign, r.err, RetBool(r.eq))
    /\ UNCHANGED <<invoked, threads>>

\* A description that is the placeholder whatever the entry holds.
PulseQobjDef_str_placeholder(h, ent) ==
    [err |-> "none",
     str |-> [head |-> "PulseQobj", name |-> "", params |-> <<>>, parens |-> FALSE]]

\* PulseQobjDef.__str__
PulseQobjDef_str_eff(h, ent) ==
    IF ent._definition = None
    THEN [err |-> "none",
          str |-> [head |-> "PulseQobj", name |-> "", params |-> <<>>, parens |-> FALSE]]
    ELSE ScheduleDef_str_eff(h, ent, ent._signature)

PulseQobjDef_str(i) ==
    /\ entries[i].cls = "PulseQobjDef"
    /\ heap' = Collect(heap, entries, {})
    /\ LET r == PulseQobjDef_str_eff(heap, entries[i])
       IN  last' = Call("str", i, 0, None, NoSource, <<>>, EmptyAssign, r.err,
                        RetStr(r.str))
    /\ UNCHANGED <<entries, builds, invoked, threads>>

-----------------------------------------------------------------------------
(* Threads calling get_signature() and get_schedule() on shared PulseQobjDefs *)

Threads == 1..MaxThreads

\* A thread that has made no call.
Idle ==
    [pc |-> "idle", self |-> 0, op |-> "", schedule |-> None, err |-> "none",
     ret |-> NoRet, overlapped |-> FALSE]

\* A test that finds no schedule whatever the entry holds.
DefinitionIgnored(ent) == TRUE

\* `self._definition is None`
DefinitionIsNone(ent) == ent._definition = None

\* Thread t enters get_signature() or get_schedule() of entry i and tests
\* `self._definition is None`.  `overlapped` notes that another thread was
\* inside a call on the entry at that moment.
Thread_call(t, i, op) ==
    /\ threads[t].pc = "idle"
    /\ entries[i].cls = "PulseQobjDef"
    /\ threads' = [threads EXCEPT ![t] =
          [@ EXCEPT !.pc = IF DefinitionIsNone(entries[i]) THEN "build" ELSE "return",
                    !.self = i, !.op = op,
                    !.overlapped = \E u \in Threads \ {t} :
                                      /\ threads[u].self = i
                                      /\ threads[u].pc \notin {"idle", "done"}]]
    /\ UNCHANGED <<heap, entries, builds, invoked, last>>

\* _build_schedule up to the publisher tag: the schedule is local to t.
Thread_convert(t) ==
    /\ threads[t].pc = "build"
    /\ LET ent == entries[threads[t].self]
           r == Alloc(heap)
           schedule == [Convert(NewSchedule(ent._name), ent._source.insts)
                          EXCEPT !.publisher = BACKEND_PROVIDER]
       IN  IF ~ent._source.some
           THEN /\ threads' = [threads EXCEPT ![t].pc = "done", ![t].err = "TypeError"]
                /\ UNCHANGED <<heap, builds>>
           ELSE /\ heap' = [heap EXCEPT ![r] = schedule]
                /\ builds' = [builds EXCEPT ![threads[t].self] = @ + 1]
                /\ threads' = [threads EXCEPT ![t].pc = "store", ![t].schedule = r]
    /\ UNCHANGED <<entries, invoked, last>>

\* `self._definition = schedule`
Thread_store(t) ==
    /\ threads[t].pc = "store"
    /\ entries' = [entries EXCEPT ![threads[t].self]._definition = threads[t].schedule]
    /\ threads' = [threads EXCEPT ![t].pc = "parse"]
    /\ UNCHANGED <<heap, builds, invoked, last>>

\* `self._parse_argument()`, on the schedule the entry holds by now.
Thread_parse(t) ==
    /\ threads[t].pc = "parse"
    /\ LET i == threads[t].self
           p == _parse_argument(heap[entries[i]._definition], entries[i]._user_arguments)
       IN  IF p.err # "none"
           THEN /\ threads' = [threads EXCEPT ![t].pc = "done", ![t].err = p.err]
                /\ UNCHANGED entries
           ELSE /\ entries' = [entries EXCEPT ![i]._signature = p.signature]
                /\ threads' = [threads EXCEPT ![t].pc = "return"]
    /\ UNCHANGED <<heap, builds, invoked, last>>

\* `return super().get_signature()`, `return super().get_schedule()`
Thread_return(t) ==
    /\ threads[t].pc = "return"
    /\ LET ent == entries[threads[t].self]
       IN  threads' = [threads EXCEPT
              ![t].pc = "done",
              ![t].ret = IF threads[t].op = "get_signature"
                         THEN RetSig(ScheduleDef_get_signature_eff(ent))
                         ELSE RetRef(ent._definition)]
    /\ UNCHANGED <<heap, entries, builds, invoked, last>>

-----------------------------------------------------------------------------
(* The entries constructed, and the calls of a single-threaded caller *)

Constructors ==
    <<ScheduleDef_init(<<>>), ScheduleDef_init(<<NameB, NameAB>>),
      ScheduleDef_init(<<NameB>>),
      PulseQobjDef_init(<<>>, "q"), PulseQobjDef_init(<<NameB>>, "q"),
      CallableDef_init>>

\* Two entries are constructed: a call involves at most two (a comparison).
EntryIds == {1, 2}

\* The state after the construction of entries by the constructors C.
InitOf(C) ==
    /\ heap = InitHeap
    /\ \E f \in [EntryIds -> C] :
          /\ \A i, j \in EntryIds : i < j => f[i] <= f[j]
          /\ entries = [i \in EntryIds |-> Constructors[f[i]]]
    /\ builds = [i \in EntryIds |-> 0]
    /\ invoked = 0
    /\ last = NoCall
    /\ threads = [t \in Threads |-> Idle]

ScheduleDefCalls ==
    \/ \E i \in EntryIds, v \in Held : ScheduleDef_define(i, v)
    \/ \E i \in EntryIds : ScheduleDef_get_signature(i)
    \/ \E i \in EntryIds, pos \in PosArgs, kw \in KwArgs : ScheduleDef_get_schedule(i, pos, kw)
    \/ \E i, j \in EntryIds : ScheduleDef_eq(i, j)
    \/ \E i \in EntryIds : ScheduleDef_str(i)

CallableDefCalls ==
    \/ \E i \in EntryIds, f \in CallableIds : CallableDef_define(i, f)
    \/ \E i \in EntryIds : CallableDef_get_signature(i)
    \/ \E i \in EntryIds, pos \in PosArgs, kw \in KwArgs : CallableDef_get_schedule(i, pos, kw)
    \/ \E i, j \in EntryIds : CallableDef_eq(i, j)
    \/ \E i \in EntryIds : CallableDef_str(i)

PulseQobjDefCalls ==
    \/ \E i \in EntryIds, src \in Sources : PulseQobjDef_define(i, src)
    \/ \E i \in EntryIds : PulseQobjDef_get_signature(i)
    \/ \E i \in EntryIds, pos \in PosArgs, kw \in KwArgs : PulseQobjDef_get_schedule(i, pos, kw)
    \/ \E i, j \in EntryIds, reflected \in BOOLEAN : PulseQobjDef_eq(i, j, reflected)
    \/ \E i \in EntryIds : PulseQobjDef_str(i)

\* Entries of every class.
Init == InitOf({1, 4, 6})
Next == ScheduleDefCalls \/ CallableDefCalls \/ PulseQobjDefCalls
Spec == Init /\ [][Next]_vars

\* ScheduleDef entries only.
InitInline == InitOf({1, 2, 3})
SpecInline == InitInline /\ [][ScheduleDefCalls]_vars

\* CallableDef entries only.
InitCallable == InitOf({6})
SpecCallable == InitCallable /\ [][CallableDefCalls]_vars

\* PulseQobjDef entries, and a ScheduleDef to compare them with.
InitDeferred == InitOf({1, 4, 5})
NextDeferred == ScheduleDefCalls \/ PulseQobjDefCalls
SpecDeferred == InitDeferred /\ [][NextDeferred]_vars

\* Entries PulseQobjDef() defined by one thread, then shared by the threads
\* without a lock.
InitConcurrent ==
    /\ heap = InitHeap
    /\ \E f \in [EntryIds -> Sources] :
          entries = [i \in EntryIds |->
                        PulseQobjDef_define_eff(PulseQobjDef_init(<<>>, "q"), f[i])]
    /\ builds = [i \in EntryIds |-> 0]
    /\ invoked = 0
    /\ last = NoCall
    /\ threads = [t \in Threads |-> Idle]

NextConcurrent ==
    \/ \E t \in Threads, i \in EntryIds, op \in {"get_signature", "get_schedule"} :
          Thread_call(t, i, op)
    \/ \E t \in Threads : Thread_convert(t)
    \/ \E t \in Threads : Thread_store(t)
    \/ \E t \in Threads : Thread_parse(t)
    \/ \E t \in Threads : Thread_return(t)

SpecConcurrent == InitConcurrent /\ [][NextConcurrent]_vars

-----------------------------------------------------------------------------
(* What the claims speak of *)

IsPulseQobjDef(i) == entries[i].cls = "PulseQobjDef"
IsScheduleDef(i) == entries[i].cls = "ScheduleDef"
IsCallableDef(i) == entries[i].cls = "CallableDef"

\* UNBUILT and BUILT of a PulseQobjDef.
Built(ent) == ent._definition # None
Defined(ent) == ent._source.some

\* The step is a call of one of `ops` on entry i.
IsCall(i, ops) == last'.self = i /\ last'.op \in ops

\* The value of a schedule: what Schedule.__eq__ compares.
ValueOf(cell) == [insts |-> cell.insts, params |-> cell.params, assigned |-> cell.assigned]

-----------------------------------------------------------------------------
(* C1: lazy build of a PulseQobjDef *)

\* C1 as stated: on a defined PulseQobjDef the step from UNBUILT to BUILT is
\* a get_signature or get_schedule call on that entry, a BUILT entry stays
\* BUILT, and the build step has run at most once.
C1_BuildOnlyOnGet ==
    [][\A i \in EntryIds : IsPulseQobjDef(i) =>
          /\ (~Built(entries[i]) /\ Built(entries'[i]))
                => IsCall(i, {"get_signature", "get_schedule"})
          /\ Built(entries[i]) => Built(entries'[i])
          /\ builds'[i] <= 1]_vars

\* C1 amended: on a defined PulseQobjDef every get_signature or get_schedule
\* call leaves the entry BUILT; the step from UNBUILT to BUILT is such a call
\* or a comparison of the entry with a ScheduleDef that is no PulseQobjDef; a
\* BUILT entry stays BUILT; the build step runs exactly when the entry goes
\* from UNBUILT to BUILT, so at most once, and never on a BUILT entry.
C1_LazyBuildOnce ==
    [][\A i \in EntryIds : IsPulseQobjDef(i) =>
          /\ (Defined(entries[i]) /\ IsCall(i, {"get_signature", "get_schedule"}))
                => Built(entries'[i])
          /\ (~Built(entries[i]) /\ Built(entries'[i]))
                => \/ IsCall(i, {"get_signature", "get_schedule"})
                   \/ /\ IsCall(i, {"eq", "eq_reflected"})
                      /\ IsScheduleDef(last'.other)
          /\ Built(entries[i]) => Built(entries'[i])
          /\ builds'[i] - builds[i] =
                (IF ~Built(entries[i]) /\ Built(entries'[i]) THEN 1 ELSE 0)
          /\ builds'[i] <= 1]_vars

\* A second request on a BUILT entry: get_schedule gave the schedule built
\* by an earlier call.
C1_Witness ==
    \E i \in EntryIds :
        /\ IsPulseQobjDef(i) /\ builds[i] = 1
        /\ last.self = i /\ last.op = "get_schedule" /\ ~last.unbuilt
        /\ last.err = "none" /\ last.ret.ref = entries[i]._definition

-----------------------------------------------------------------------------
(* C2: re-defining an entry *)

\* What a PulseQobjDef builds from the source it holds now.
BuiltFrom(ent) ==
    [Convert(NewSchedule(ent._name), ent._source.insts) EXCEPT
        !.publisher = BACKEND_PROVIDER]

\* C2: whatever was defined before, get_signature() and get_schedule() give
\* the signature and the schedule derived from the definition the entry was
\* given last (for a PulseQobjDef its source, for a ScheduleDef its schedule,
\* for a CallableDef its callable), whenever a signature derives from it.
C2_RedefineReplaces ==
    \A i \in EntryIds : (last.self = i /\ last.err = "none") =>
        /\ (IsPulseQobjDef(i) /\ Defined(entries[i])) =>
              LET p == _parse_argument(BuiltFrom(entries[i]), entries[i]._user_arguments)
              IN  p.err = "none" =>
                    /\ last.op = "get_signature" => last.ret.sig = p.signature
                    /\ (last.op = "get_schedule" /\ last.pos = <<>> /\ DOMAIN last.kw = {})
                          => /\ last.ret.ref # None
                             /\ ValueOf(heap[last.ret.ref]) = ValueOf(BuiltFrom(entries[i]))
        /\ (IsScheduleDef(i) /\ entries[i]._definition # None) =>
              LET p == _parse_argument(heap[entries[i]._definition],
                                       entries[i]._user_arguments)
              IN  p.err = "none" =>
                    /\ last.op = "get_signature" => last.ret.sig = p.signature
                    /\ (last.op = "get_schedule" /\ last.pos = <<>> /\ DOMAIN last.kw = {})
                          => last.ret.ref = entries[i]._definition
        /\ (IsCallableDef(i) /\ entries[i]._definition # None
                /\ last.op = "get_signature") =>
              last.ret.sig = [some |-> TRUE,
                              params |-> Callables[entries[i]._definition].params]

-----------------------------------------------------------------------------
(* C3: define and __str__ of an UNBUILT PulseQobjDef *)

\* No schedule value is made or changed by the step.
NoNewValue == \A r \in HeapIds : heap'[r].alloc => heap'[r] = heap[r]

PulseQobjPlaceholder ==
    [head |-> "PulseQobj", name |-> "", params |-> <<>>, parens |-> FALSE]

\* C3: define on a PulseQobjDef stores the sequence and nothing else: the
\* entry's schedule and signature are what they were (an UNBUILT entry stays
\* UNBUILT), no build runs and no schedule is made; __str__ of an UNBUILT
\* entry gives the placeholder and leaves the entry and the build count alone.
C3_DefineStoresOnly ==
    [][\A i \in EntryIds : IsPulseQobjDef(i) =>
          /\ IsCall(i, {"define"}) =>
                /\ last'.err = "none"
                /\ entries' = [entries EXCEPT ![i]._source = last'.src]
                /\ ~Built(entries[i]) =>
                      ~Built(entries'[i]) /\ entries'[i]._signature = NoSignature
                /\ builds' = builds
                /\ NoNewValue
          /\ (IsCall(i, {"str"}) /\ ~Built(entries[i])) =>
                /\ last'.err = "none"
                /\ last'.ret.str = PulseQobjPlaceholder
                /\ entries' = entries
                /\ builds' = builds
                /\ NoNewValue]_vars

\* The description of a defined entry that no call has built.
C3_Witness ==
    \E i \in EntryIds :
        /\ IsPulseQobjDef(i) /\ Defined(entries[i]) /\ ~Built(entries[i])
        /\ builds[i] = 0
        /\ last.self = i /\ last.op = "str" /\ last.ret.str = PulseQobjPlaceholder

-----------------------------------------------------------------------------
(* C4: the publisher tag *)

\* C4: no call changes the tag of a tagged value that lives on; define of a
\* ScheduleDef leaves its value tagged QISKIT exactly when it was untagged;
\* the value a CallableDef returns carries the tag it had, QISKIT if none.
C4_TagSetOnce ==
    [][/\ \A r \in PoolIds \cup Referenced(entries) :
             (heap[r].publisher # NoPublisher /\ heap'[r].alloc)
                => heap'[r].publisher = heap[r].publisher
       /\ \A i \in EntryIds :
             /\ (IsScheduleDef(i) /\ IsCall(i, {"define"})) =>
                   heap'[last'.ref].publisher =
                      (IF heap[last'.ref].publisher = NoPublisher THEN QISKIT
                       ELSE heap[last'.ref].publisher)
             /\ (IsCallableDef(i) /\ IsCall(i, {"get_schedule"}) /\ last'.err = "none") =>
                   heap'[last'.ret.ref].publisher =
                      (IF last'.ret.ref \in PoolIds
                             /\ heap[last'.ret.ref].publisher # NoPublisher
                       THEN heap[last'.ret.ref].publisher ELSE QISKIT)]_vars

\* A tagged value defined in a ScheduleDef and returned by a callable keeps
\* its tag.
C4_Witness ==
    \E i, j \in EntryIds :
        /\ IsScheduleDef(i) /\ entries[i]._definition = 2
        /\ IsCallableDef(j) /\ last.self = j /\ last.op = "get_schedule"
        /\ last.err = "none" /\ last.ret.ref = 2
        /\ heap[2].publisher = EXPERIMENT_SERVICE

-----------------------------------------------------------------------------
(* C5: the signature a ScheduleDef derives *)

\* The names are in lexicographic order, none twice.
Lexicographic(names) ==
    \A k \in 1..(Len(names) - 1) : StrLess(names[k], names[k + 1])

\* C5: right after define(value) on a ScheduleDef: without explicit names
\* define succeeds and get_signature() lists the parameter names of value,
\* each once, in lexicographic order; with explicit names whose set is that
\* of value's parameter names define succeeds and get_signature() lists them
\* in the caller's order; with explicit names of another set define fails
\* with ArgumentMismatch.  get_signature() returns the entry's signature.
C5_SignatureDerivation ==
    \A i \in EntryIds : (IsScheduleDef(i) /\ last.self = i) =>
        /\ last.op = "define" =>
              LET value == heap[last.ref]
                  given == entries[i]._user_arguments
                  sig == ScheduleDef_get_signature_eff(entries[i])
              IN  /\ given = <<>> =>
                        /\ last.err = "none" /\ sig.some
                        /\ SeqToSet(SigNames(sig)) = value.params
                        /\ Lexicographic(SigNames(sig))
                  /\ (given # <<>> /\ SeqToSet(given) = value.params) =>
                        /\ last.err = "none" /\ sig.some
                        /\ SigNames(sig) = given
                  /\ (given # <<>> /\ SeqToSet(given) # value.params) =>
                        last.err = "ArgumentMismatch"
        /\ last.op = "get_signature" =>
              last.err = "none" /\ last.ret.sig = entries[i]._signature

\* The schedule s1, of parameters "ab" and "b", defined in an entry without
\* explicit names, (ab, b), and in an entry of explicit names (b, ab).
C5_Witness ==
    /\ IsScheduleDef(1) /\ entries[1]._user_arguments = <<>>
    /\ entries[1]._definition = 1
    /\ SigNames(entries[1]._signature) = <<NameAB, NameB>>
    /\ IsScheduleDef(2) /\ entries[2]._user_arguments = <<NameB, NameAB>>
    /\ last.op = "define" /\ last.self = 2 /\ last.ref = 1 /\ last.err = "none"
    /\ SigNames(entries[2]._signature) = <<NameB, NameAB>>

-----------------------------------------------------------------------------
(* C6: get_schedule() without arguments *)

NoArguments(call) == call.pos = <<>> /\ DOMAIN call.kw = {}

\* C6: get_schedule() without arguments on a ScheduleDef returns the stored
\* value itself, every time: no value is made or changed, the only values
\* alive after the call are the caller's and the entries', and the entry is
\* as it was.
C6_ZeroCopy ==
    [][\A i \in EntryIds :
          (IsScheduleDef(i) /\ IsCall(i, {"get_schedule"}) /\ NoArguments(last')) =>
              /\ last'.err = "none"
              /\ last'.ret.ref = entries[i]._definition
              /\ entries' = entries
              /\ NoNewValue
              /\ \A r \in HeapIds :
                    heap'[r].alloc => r \in PoolIds \cup Referenced(entries)]_vars

\* get_schedule() on a defined entry, twice in a row.
C6_Witness ==
    \E i \in EntryIds :
        /\ IsScheduleDef(i) /\ entries[i]._definition # None
        /\ last.self = i /\ last.op = "get_schedule" /\ NoArguments(last)
        /\ last.ret.ref = entries[i]._definition
        /\ heap[last.ret.ref].params # {}

-----------------------------------------------------------------------------
(* C7: get_schedule with arguments does not touch the entry *)

\* C7: a get_schedule call with at least one argument on a ScheduleDef, or on
\* a PulseQobjDef that was BUILT, leaves the entries, the build counts and
\* every value of the caller and of the entries as they were, whether it
\* returns or raises; the value it returns is a new one.
C7_BindingLeavesEntry ==
    [][\A i \in EntryIds :
          (/\ IsScheduleDef(i) \/ (IsPulseQobjDef(i) /\ Built(entries[i]))
           /\ IsCall(i, {"get_schedule"}) /\ ~NoArguments(last')) =>
              /\ entries' = entries
              /\ builds' = builds
              /\ \A r \in PoolIds \cup Referenced(entries) : heap'[r] = heap[r]
              /\ last'.err \in {"none", "BindingError", "AttributeError"}
              /\ last'.err = "none" =>
                    /\ last'.ret.ref \notin PoolIds \cup Referenced(entries) \cup {None}
                    /\ heap'[last'.ret.ref].alloc]_vars

\* A parameter bound on a BUILT PulseQobjDef: the value returned is not the
\* stored one, which still has its parameter.
C7_Witness ==
    \E i \in EntryIds :
        /\ IsPulseQobjDef(i) /\ Built(entries[i])
        /\ last.self = i /\ last.op = "get_schedule" /\ ~last.unbuilt
        /\ last.err = "none" /\ last.ret.ref # entries[i]._definition
        /\ NameB \in DOMAIN heap[last.ret.ref].assigned
        /\ NameB \in heap[entries[i]._definition].params

-----------------------------------------------------------------------------
(* C8: partial binding on a ScheduleDef *)

\* The arguments of a call against a list of names, by Python's rules for
\* positional-or-keyword parameters.
Overflow(names, call) == Len(call.pos) > Len(names)
UnknownName(names, call) == ~(DOMAIN call.kw \subseteq SeqToSet(names))
ByPosition(names, call) ==
    {names[k] : k \in 1..(IF Overflow(names, call) THEN Len(names) ELSE Len(call.pos))}
TwiceBound(names, call) == ByPosition(names, call) \cap DOMAIN call.kw # {}
BoundValues(names, call) ==
    [nm \in ByPosition(names, call) \cup DOMAIN call.kw |->
        IF nm \in DOMAIN call.kw THEN call.kw[nm]
        ELSE call.pos[CHOOSE k \in DOMAIN names : names[k] = nm]]

\* The value r put in an entry of its own and `rest` bound on it by keyword.
Rebind(h, r, rest) ==
    LET d == ScheduleDef_define_eff(h, ScheduleDef_init(<<>>), r)
        g == ScheduleDef_get_schedule_eff(d.h, d.ent, d.ent._signature, <<>>, rest)
    IN  [err |-> g.err,
         value |-> IF g.err = "none" THEN ValueOf(g.h[g.ref]) ELSE ValueOf(FreeCell)]

\* Everything bound in one call on the entry, by keyword.
OneCall(h, ent, all) ==
    LET g == ScheduleDef_get_schedule_eff(h, ent, ent._signature, <<>>, all)
    IN  [err |-> g.err,
         value |-> IF g.err = "none" THEN ValueOf(g.h[g.ref]) ELSE ValueOf(FreeCell)]

\* The claim about the get_schedule call just made on entry i.
PartialBinding(i) ==
    LET names == SigNames(entries[i]._signature)
        stored == heap[entries[i]._definition]
        bad == Overflow(names, last) \/ UnknownName(names, last) \/ TwiceBound(names, last)
        B == BoundValues(names, last)
    IN  /\ bad <=> last.err = "BindingError"
        /\ ~bad =>
              /\ last.err = "none"
              /\ LET r == heap[last.ret.ref]
                 IN  /\ r.insts = stored.insts
                     /\ r.params = stored.params \ DOMAIN B
                     /\ r.params = SeqToSet(names) \ DOMAIN B
                     /\ r.assigned = Merge(stored.assigned, B)
              /\ \A rest \in [SeqToSet(names) \ DOMAIN B -> Vals] :
                    LET two == Rebind(heap, last.ret.ref, rest)
                        one == OneCall(heap, entries[i], Merge(B, rest))
                    IN  two.err = "none" /\ one.err = "none" /\ two.value = one.value

\* C8: a get_schedule call with arguments on a ScheduleDef that has a
\* signature fails with BindingError exactly when a keyword is no name of the
\* signature, there are more positional arguments than names, or a name gets
\* two values; otherwise it returns a value in which exactly the bound names
\* are substituted and every other name of the signature is still a
\* parameter, and binding these on the result gives the value that binding
\* everything in one call gives.
C8_PartialBinding ==
    \A i \in EntryIds :
        (/\ IsScheduleDef(i) /\ entries[i]._signature.some
         /\ last.self = i /\ last.op = "get_schedule" /\ ~NoArguments(last)) =>
            PartialBinding(i)

\* The signature is the one of the stored value.
Consistent(ent) ==
    /\ ent._definition # None /\ ent._signature.some
    /\ LET p == _parse_argument(heap[ent._definition], ent._user_arguments)
       IN  p.err = "none" /\ p.signature = ent._signature

\* The same, for the entries whose last define succeeded.
C8_PartialBindingConsistent ==
    \A i \in EntryIds :
        (/\ IsScheduleDef(i) /\ Consistent(entries[i])
         /\ last.self = i /\ last.op = "get_schedule" /\ ~NoArguments(last)) =>
            PartialBinding(i)

\* One of two parameters bound on a consistent entry.
C8_ConsistentWitness ==
    \E i \in EntryIds :
        /\ IsScheduleDef(i) /\ Consistent(entries[i])
        /\ last.self = i /\ last.op = "get_schedule" /\ last.err = "none"
        /\ Cardinality(heap[entries[i]._definition].params) = 2
        /\ Cardinality(heap[last.ret.ref].params) = 1

-----------------------------------------------------------------------------
(* C9: CallableDef binds fully and does not cache *)

\* A parameter without default that the call gives no value.
MissingRequired(params, call) ==
    \E k \in DOMAIN params :
        /\ k > Len(call.pos)
        /\ params[k].name \notin DOMAIN call.kw
        /\ ~params[k].has_default

\* The arguments the callable is to receive: the values bound, and the
\* declared default of every other parameter.
Resolved(params, call) ==
    LET names == [k \in DOMAIN params |-> params[k].name]
        B == BoundValues(names, call)
    IN  [nm \in SeqToSet(names) |->
            IF nm \in DOMAIN B THEN B[nm]
            ELSE params[CHOOSE k \in DOMAIN params : params[k].name = nm].default]

\* C9: a get_schedule call on a defined CallableDef that leaves a parameter
\* without default unbound, names a keyword the callable does not have, gives
\* more positional arguments than it has parameters or gives a parameter two
\* values fails with BindingError and does not invoke the callable; every
\* other call invokes it once, with the bound values and the declared
\* defaults, keeps nothing in the entry, and leaves on the result the tag
\* QISKIT if the result carried none and the tag it carried otherwise.
C9_FullBindingNoCache ==
    [][\A i \in EntryIds :
          (IsCallableDef(i) /\ entries[i]._signature.some /\ IsCall(i, {"get_schedule"})) =>
              LET f == Callables[entries[i]._definition]
                  names == [k \in DOMAIN f.params |-> f.params[k].name]
                  bad == \/ Overflow(names, last') \/ UnknownName(names, last')
                         \/ TwiceBound(names, last') \/ MissingRequired(f.params, last')
                  ref == last'.ret.ref
              IN  /\ entries' = entries
                  /\ bad =>
                        /\ last'.err = "BindingError"
                        /\ invoked' = invoked
                        /\ NoNewValue
                        /\ \A r \in PoolIds : heap'[r] = heap[r]
                  /\ ~bad =>
                        /\ last'.err = "none"
                        /\ invoked' = invoked + 1
                        /\ IF f.returns = None
                           THEN /\ ref \notin PoolIds \cup {None}
                                /\ heap'[ref].alloc
                                /\ heap'[ref].assigned = Resolved(f.params, last')
                                /\ heap'[ref].publisher = QISKIT
                           ELSE /\ ref = f.returns
                                /\ heap'[ref].publisher =
                                      IF heap[ref].publisher = NoPublisher THEN QISKIT
                                      ELSE heap[ref].publisher]_vars

\* The second invocation, of f1 with only `a` given: b is its default, 1, and
\* the new schedule is tagged QISKIT.
C9_Witness ==
    \E i \in EntryIds :
        /\ IsCallableDef(i) /\ entries[i]._definition = 1
        /\ last.self = i /\ last.op = "get_schedule" /\ last.err = "none"
        /\ invoked = 2
        /\ Len(last.pos) = 1 /\ DOMAIN last.kw = {}
        /\ heap[last.ret.ref].assigned = (NameA :> 1) @@ (NameB :> 1)
        /\ heap[last.ret.ref].publisher = QISKIT

-----------------------------------------------------------------------------
(* C10: equality of a PulseQobjDef *)

\* C10: an equality that PulseQobjDef.__eq__ of entry i answers: against
\* another PulseQobjDef the result is the equality of the two sources and
\* nothing is built or changed; against a ScheduleDef holding a schedule
\* value, when entry i is defined and UNBUILT, entry i is built once and,
\* unless that build raises, the result is the equality of the schedule value
\* built and the one the ScheduleDef holds.
C10_Equality ==
    [][\A i, j \in EntryIds :
          (IsPulseQobjDef(i) /\ IsCall(i, {"eq", "eq_reflected"}) /\ last'.other = j) =>
              /\ IsPulseQobjDef(j) =>
                    /\ last'.err = "none"
                    /\ last'.ret.eq = (entries[i]._source = entries[j]._source)
                    /\ entries' = entries
                    /\ builds' = builds
                    /\ NoNewValue
              /\ (/\ IsScheduleDef(j) /\ Built(entries[j])
                  /\ Defined(entries[i]) /\ ~Built(entries[i])) =>
                    /\ builds' = [builds EXCEPT ![i] = @ + 1]
                    /\ Built(entries'[i])
                    /\ entries'[j] = entries[j]
                    /\ last'.err \in {"none", "ArgumentMismatch"}
                    /\ last'.err = "none" =>
                          last'.ret.eq = (ValueOf(heap'[entries'[i]._definition])
                                            = ValueOf(heap'[entries[j]._definition]))]_vars

\* A ScheduleDef holding s2 compared with an UNBUILT PulseQobjDef of source
\* SrcA: one build, and the two schedule values are equal.
C10_Witness ==
    \E i, j \in EntryIds :
        /\ IsPulseQobjDef(i) /\ IsScheduleDef(j)
        /\ last.self = i /\ last.other = j /\ last.op = "eq_reflected"
        /\ last.unbuilt /\ Built(entries[i]) /\ builds[i] = 1
        /\ entries[j]._definition = 2
        /\ last.err = "none" /\ last.ret.eq

-----------------------------------------------------------------------------
(* C11: a BUILT PulseQobjDef against the ScheduleDef of the same value *)

\* ScheduleDef(arguments) with the argument names of ent, defined with the
\* schedule value ent holds.
InlineOf(h, ent) == ScheduleDef_define_eff(h, ScheduleDef_init(ent._user_arguments),
                                           ent._definition).ent

\* What a call returns: nothing when it raised; a schedule by its value when
\* the call made it, by its reference when an entry or the caller holds it.
Outcome(h, held, err, ret) ==
    [err |-> err,
     ret |-> IF err # "none" THEN NoRet
             ELSE IF ret.kind = "ref" /\ ret.ref \notin held \cup {None}
                  THEN [ret EXCEPT !.ref = None]
                  ELSE ret,
     value |-> IF err = "none" /\ ret.kind = "ref" /\ ret.ref # None
               THEN ValueOf(h[ret.ref]) ELSE ValueOf(FreeCell)]

\* The step is the call last' on the BUILT PulseQobjDef i, and the same call
\* on the ScheduleDef of its value has the same outcome.
LikeInline(i) ==
    LET h == Collect(heap, entries, {})
        held == PoolIds \cup Referenced(entries)
        sd == InlineOf(h, entries[i])
        got == Outcome(heap', held, last'.err, last'.ret)
    IN  /\ entries' = entries
        /\ CASE last'.op = "get_signature" ->
                  got = Outcome(h, held, "none", RetSig(ScheduleDef_get_signature_eff(sd)))
             [] last'.op = "get_schedule" ->
                  LET r == ScheduleDef_get_schedule_eff(h, sd, sd._signature,
                                                        last'.pos, last'.kw)
                  IN  got = Outcome(r.h, held, r.err, RetRef(r.ref))
             [] last'.op = "str" ->
                  LET r == ScheduleDef_str_eff(h, sd, sd._signature)
                  IN  got = Outcome(h, held, r.err, RetStr(r.str))
             [] last'.op \in {"eq", "eq_reflected"} ->
                  IF IsScheduleDef(last'.other)
                  THEN got = Outcome(h, held, "none",
                                 RetBool(ScheduleDef_eq_eff(h, sd, entries[last'.other])))
                  ELSE LET r == PulseQobjDef_eq_eff(h, entries[last'.other], sd)
                       IN  got = Outcome(r.h, held, r.err, RetBool(r.eq))
             [] OTHER -> TRUE

\* C11 as stated: every get_signature, get_schedule, equality and description
\* call on a BUILT PulseQobjDef returns what the same call returns on a
\* ScheduleDef of the same argument names defined with the built schedule
\* value, and leaves the entries as they were.
C11_BuiltLikeInline ==
    [][\A i \in EntryIds :
          (/\ IsPulseQobjDef(i) /\ Built(entries[i])
           /\ IsCall(i, {"get_signature", "get_schedule", "str", "eq", "eq_reflected"})) =>
              LikeInline(i)]_vars

\* C11 amended: the same, for every call but the equality with another
\* PulseQobjDef.
C11_BuiltLikeInlineButSources ==
    [][\A i \in EntryIds :
          (/\ IsPulseQobjDef(i) /\ Built(entries[i])
           /\ IsCall(i, {"get_signature", "get_schedule", "str", "eq", "eq_reflected"})
           /\ last'.op \in {"eq", "eq_reflected"} => IsScheduleDef(last'.other)) =>
              LikeInline(i)]_vars

\* The description of a BUILT PulseQobjDef with parameters (ab, b): that of a
\* ScheduleDef.
C11_Witness ==
    \E i \in EntryIds :
        /\ IsPulseQobjDef(i) /\ Built(entries[i]) /\ ~last.unbuilt
        /\ last.self = i /\ last.op = "str" /\ last.err = "none"
        /\ last.ret.str.head = "Schedule"
        /\ last.ret.str.params = <<NameAB, NameB>>

-----------------------------------------------------------------------------
(* C12: a failed call fails again *)

\* The step repeats the call before it: the same operation on the same entry
\* with the same arguments.
Repeats(ops) ==
    /\ last.op \in ops /\ last'.op = last.op /\ last'.self = last.self
    /\ last'.ref = last.ref /\ last'.src = last.src
    /\ last'.pos = last.pos /\ last'.kw = last.kw

\* C12: a define, get_signature or get_schedule call that repeats a failed
\* call fails with the same error, and a get_signature() that repeats one
\* that returned returns the same signature.
C12_ErrorsRepeat ==
    [][Repeats({"define", "get_signature", "get_schedule"}) =>
          /\ last.err # "none" => last'.err = last.err
          /\ (last.op = "get_signature" /\ last.err = "none") =>
                (last'.err = "none" /\ last'.ret = last.ret)]_vars

-----------------------------------------------------------------------------
(* C13: concurrent first access to a PulseQobjDef *)

\* Thread t got no signature from get_signature(), and no error.
Torn(t) ==
    /\ threads[t].pc = "done" /\ threads[t].op = "get_signature"
    /\ threads[t].err = "none" /\ threads[t].ret.sig = NoSignature

\* C13: on entries whose build cannot fail, shared by threads without a lock,
\* the build of an entry runs more than once, or a get_signature() returns no
\* signature because the schedule is stored and the signature not yet, only
\* in runs where a thread entered a call on the entry while another thread
\* was inside one: calls that do not overlap build once and return the
\* signature.  Runs with both effects exist (C13_Witness).
C13_RaceOnlyWhenOverlapped ==
    \A i \in EntryIds :
        (builds[i] > 1 \/ \E t \in Threads : threads[t].self = i /\ Torn(t)) =>
            \E t \in Threads : threads[t].self = i /\ threads[t].overlapped

\* Two builds of one entry, and a third thread that got no signature from it.
C13_Witness ==
    \E i \in EntryIds :
        /\ builds[i] = 2
        /\ \E t \in Threads : threads[t].self = i /\ Torn(t)

-----------------------------------------------------------------------------
(* C14: the schedule the build step makes *)

\* The native instructions of a source, each with the offset of its
\* serialized instruction, in source order.
RECURSIVE Flat(_)
Flat(source) ==
    IF source = <<>> THEN <<>>
    ELSE LET qiskit_insts == _get_sequences(Head(source))
         IN  [k \in DOMAIN qiskit_insts |->
                 [t0 |-> Head(source).t0, inst |-> qiskit_insts[k]]] \o Flat(Tail(source))

AtOffset(insts, t) == SelectSeq(insts, LAMBDA x : x.t0 = t)

\* C14: a step in which the build of entry i ran leaves in the entry a
\* schedule that lists exactly the native instructions of the source the
\* entry held, each at the offset of its serialized instruction, by ascending
\* offset, those of one offset in source order, and that is tagged
\* BACKEND_PROVIDER.
C14_BuiltSchedule ==
    [][\A i \in EntryIds :
          builds'[i] = builds[i] + 1 =>
              LET built == heap'[entries'[i]._definition]
                  flat == Flat(entries[i]._source.insts)
              IN  /\ Len(built.insts) = Len(flat)
                  /\ \A k \in 1..(Len(built.insts) - 1) :
                        built.insts[k].t0 <= built.insts[k + 1].t0
                  /\ \A t \in {flat[k].t0 : k \in DOMAIN flat} :
                        AtOffset(built.insts, t) = AtOffset(flat, t)
                  /\ built.params = InstParams(flat)
                  /\ built.publisher = BACKEND_PROVIDER]_vars

\* Two entries BUILT: from a source with offsets 10 then 5, listed 5 then 10;
\* from a source with three instructions at offset 5, in source order.
C14_Witness ==
    \E i, j \in EntryIds :
        /\ IsPulseQobjDef(i) /\ Built(entries[i]) /\ builds[i] = 1
        /\ heap[entries[i]._definition].insts =
              <<[t0 |-> 5, inst |-> InstPlayB], [t0 |-> 10, inst |-> InstDelay]>>
        /\ heap[entries[i]._definition].publisher = BACKEND_PROVIDER
        /\ IsPulseQobjDef(j) /\ Built(entries[j]) /\ builds[j] = 1
        /\ heap[entries[j]._definition].insts =
              <<[t0 |-> 5, inst |-> InstDelay], [t0 |-> 5, inst |-> InstPlayAB],
                [t0 |-> 5, inst |-> InstShiftB]>>
        /\ heap[entries[j]._definition].publisher = BACKEND_PROVIDER

-----------------------------------------------------------------------------
(* C15: the signature of the schedule value held *)

\* C15: a ScheduleDef or PulseQobjDef that holds a schedule value holds a
\* signature, and the names of the signature are the parameter names of the
\* schedule value.
C15_SignatureOfDefinition ==
    \A i \in EntryIds :
        ((IsScheduleDef(i) \/ IsPulseQobjDef(i)) /\ entries[i]._definition # None) =>
            /\ entries[i]._signature.some
            /\ SeqToSet(SigNames(entries[i]._signature))
                  = heap[entries[i]._definition].params

-----------------------------------------------------------------------------
(* C16: a define that fails *)

\* C16: a define call on a ScheduleDef that raises ArgumentMismatch leaves
\* the entry as it was, its schedule value and its signature, and leaves the
\* publisher tag of the value it rejected as it was.
C16_FailedDefineChangesNothing ==
    [][\A i \in EntryIds :
          (IsScheduleDef(i) /\ IsCall(i, {"define"}) /\ last'.err = "ArgumentMismatch") =>
              /\ entries' = entries
              /\ heap'[last'.ref].publisher = heap[last'.ref].publisher]_vars

-----------------------------------------------------------------------------
(* C17: equal PulseQobjDefs produce the same *)

\* What get_signature() and get_schedule() of the entry would return now.
Produces(h, ent) ==
    LET b == BuildIfNone(h, ent)
    IN  [err |-> b.err,
         signature |-> IF b.err = "none" THEN ScheduleDef_get_signature_eff(b.ent)
                       ELSE NoSignature,
         value |-> IF b.err = "none" THEN ValueOf(b.h[b.ent._definition])
                   ELSE ValueOf(FreeCell)]

\* C17: two PulseQobjDef entries, constructed with the same argument names,
\* that compare equal return equal signatures from get_signature() and equal
\* schedule values from get_schedule().
C17_EqualProduceSame ==
    \A i, j \in EntryIds :
        (/\ i # j /\ IsPulseQobjDef(i) /\ IsPulseQobjDef(j)
         /\ entries[i]._user_arguments = entries[j]._user_arguments
         /\ PulseQobjDef_eq_eff(heap, entries[i], entries[j]).eq) =>
            Produces(heap, entries[i]) = Produces(heap, entries[j])

-----------------------------------------------------------------------------
(* C18: equality of a ScheduleDef and a PulseQobjDef *)

\* The schedule the build step makes of the source the entry holds.
BuiltOfSource(ent) == Convert(NewSchedule(ent._name), ent._source.insts)

\* C18: `a == b` and `b == a`, a ScheduleDef holding a schedule value and b a
\* defined PulseQobjDef whose argument names fit its source, return the same
\* whether b is UNBUILT or BUILT: true exactly when the value a holds equals
\* the schedule built from the source b holds.
C18_SymmetricEquality ==
    [][\A i, j \in EntryIds :
          (/\ IsPulseQobjDef(i) /\ Defined(entries[i])
           /\ _parse_argument(BuiltOfSource(entries[i]),
                              entries[i]._user_arguments).err = "none"
           /\ IsScheduleDef(j) /\ Built(entries[j])
           /\ IsCall(i, {"eq", "eq_reflected"}) /\ last'.other = j) =>
              /\ last'.err = "none"
              /\ last'.ret.eq = (ValueOf(heap[entries[j]._definition])
                                   = ValueOf(BuiltOfSource(entries[i])))]_vars

====
